---- MODULE Spec2Model ----
(***************************************************************************)
(* The recipe generation pipeline of ai-recipe-generator:                  *)
(*   GET /recipe/{user_id}   (app/routes/recipes.py, generate_recipe)      *)
(*   AIService.generate_recipe and its parsing / fallback chain            *)
(*   VectorStore.search_similar_recipes / store_recipe                     *)
(* The providers (chat completion, image, embedding, vector index) and the *)
(* document store are external: every call to one is a nondeterministic    *)
(* choice among the outcomes it can have.                                  *)
(***************************************************************************)
EXTENDS Integers, Sequences, FiniteSets, TLC

(***************************************************************************)
(* Bounds of the model.                                                    *)
(***************************************************************************)
\* longest provider text, in chunks, that SpecSynth enumerates exhaustively
MaxTextLen == 3
\* number of GET /recipe/{user_id} requests served in one behaviour
MaxRequests == 1
\* generation requests in flight at once
MaxInFlight == 2

(***************************************************************************)
(* Python values.  A value carries its type, since the code's behaviour    *)
(* depends on it (str.lower, the response model's validation).             *)
(***************************************************************************)
StrV(s) == [t |-> "str", v |-> s]
IntV(n) == [t |-> "int", v |-> n]
ListV(q) == [t |-> "list", v |-> q]
DictV(d) == [t |-> "dict", v |-> d]
TimeV(n) == [t |-> "datetime", v |-> n]
NoneV == [t |-> "none", v |-> 0]

\* a dict is a function from its keys; the empty dict is the empty function
EmptyDict == << >>
Has(d, k) == k \in DOMAIN d
\* dict.get(k, default)
Get(d, k, default) == IF k \in DOMAIN d THEN d[k] ELSE default
\* d[k] = v
Put(d, k, v) == (k :> v) @@ d
\* the members of e written over d (a later duplicate key wins)
Merge(d, e) == e @@ d

\* str.lower() on the names that occur in the model
Lower(s) ==
  CASE s = "Soup" -> "soup"
    [] s = "Stew" -> "stew"
    [] s = "Veggie Pasta" -> "veggie pasta"
    [] s = "Recipe" -> "recipe"
    [] OTHER -> s

\* ', '.join(q)
RECURSIVE JoinComma(_)
JoinComma(q) ==
  IF q = << >> THEN ""
  ELSE IF Len(q) = 1 THEN q[1]
  ELSE q[1] \o ", " \o JoinComma(Tail(q))

\* how an f-string renders a value
Format(x) ==
  CASE x.t = "str" -> x.v
    [] x.t = "int" -> ToString(x.v)
    [] OTHER -> "<" \o x.t \o ">"

(***************************************************************************)
(* Provider text.  A response text is a sequence of chunks: a brace, a run *)
(* of prose, a newline, the key that introduces the nested                 *)
(* nutritional_facts object, or a run of JSON members (with their commas). *)
(* A members chunk may hold a raw newline inside one of its string         *)
(* literals (rawnl): json.loads rejects it, and its d is what the members  *)
(* decode to once the newline has been replaced by a space.                *)
(***************************************************************************)
Chunk(kind, d, rawnl) == [kind |-> kind, d |-> d, rawnl |-> rawnl]
LB == Chunk("{", EmptyDict, FALSE)
RB == Chunk("}", EmptyDict, FALSE)
Prose == Chunk("prose", EmptyDict, FALSE)
NL == Chunk("nl", EmptyDict, FALSE)
SP == Chunk("sp", EmptyDict, FALSE)
NFKey == Chunk("nfkey", EmptyDict, FALSE)

\* the seven fields the response model needs besides the back-filled ones
CoreDict ==
  [recipe_name |-> StrV("Soup"),
   ingredients |-> ListV(<<"water", "leek">>),
   instructions |-> ListV(<<"Boil", "Serve">>),
   cooking_time |-> StrV("25 minutes"),
   difficulty |-> StrV("Hard"),
   servings |-> IntV(6),
   dietary_tags |-> ListV(<<"vegan">>)]
Core == Chunk("members", CoreDict, FALSE)
Opt2 == Chunk("members", [image_prompt |-> StrV("A bowl of soup"),
                          serving_size |-> StrV("1 bowl")], FALSE)
NameOnly == Chunk("members", [recipe_name |-> StrV("Stew")], FALSE)
NameNl == Chunk("members", [recipe_name |-> StrV("Veggie Pasta")], TRUE)
NameInt == Chunk("members", [recipe_name |-> IntV(7)], FALSE)
\* the members of a nutritional_facts object: all seven keys, or one only
NF7 == Chunk("members",
             [calories |-> IntV(350), protein |-> StrV("15g"),
              carbohydrates |-> StrV("45g"), fat |-> StrV("12g"),
              fiber |-> StrV("8g"), sugar |-> StrV("5g"),
              sodium |-> StrV("400mg")], FALSE)
NF1 == Chunk("members", [calories |-> IntV(100)], FALSE)

Chunks == {LB, RB, Prose, NL, NFKey, Core, Opt2, NameOnly, NameNl, NameInt, NF7, NF1}

\* texts a provider is seen to return
TextFull == <<LB, Core, Opt2, NFKey, LB, NF7, RB, RB>>
TextFenced == <<Prose, NL, LB, Core, Opt2, NFKey, LB, NF7, RB, RB, NL, Prose>>
TextNoOptional == <<LB, Core, RB>>
TextBadFacts == <<LB, Core, Opt2, NFKey, LB, NF1, RB, RB>>
TextNameOnly == <<LB, NameOnly, RB>>
TextRawNewline == <<LB, Core, NameNl, RB>>
TextIntName == <<LB, NameInt, RB>>
TextProse == <<Prose, NL, Prose>>
TextTruncated == <<LB, Core, Opt2, NFKey, LB, NF7, RB>>
\* a recipe whose cooking_time is an object, {"prep": ..., "cook": ...};
\* the object's braces lie inside the outer ones, so the span is the same
TimeObject ==
  Chunk("members",
        [cooking_time |-> DictV([prep |-> StrV("10 minutes"),
                                 cook |-> StrV("20 minutes")])], FALSE)
TextObjectField == <<LB, Core, Opt2, TimeObject, RB>>
\* the texts of the pipeline's provider: one per outcome of the parser that
\* the handler can tell apart
ProviderTexts ==
  {TextFull, TextNoOptional, TextBadFacts, TextNameOnly, TextRawNewline,
   TextProse, TextObjectField}

\* the texts AIService.generate_recipe is applied to on its own
ShortTexts == UNION {[1..n -> Chunks] : n \in 0..MaxTextLen}
Texts ==
  ShortTexts \cup ProviderTexts \cup {TextFenced, TextIntName, TextTruncated}

(***************************************************************************)
(* re.search(r'\{.*\}', text, re.DOTALL): the leftmost "{" that has a "}"  *)
(* after it, and (greedy) the last "}" of the text.                        *)
(***************************************************************************)
BraceAt(text, kind) == {i \in 1..Len(text) : text[i].kind = kind}
Min(S) == CHOOSE x \in S : \A y \in S : x <= y
Max(S) == CHOOSE x \in S : \A y \in S : x >= y
json_match(text) ==
  /\ BraceAt(text, "{") # {}
  /\ BraceAt(text, "}") # {}
  /\ Min(BraceAt(text, "{")) < Max(BraceAt(text, "}"))
\* json_match.group()
group(text) == SubSeq(text, Min(BraceAt(text, "{")), Max(BraceAt(text, "}")))

(***************************************************************************)
(* json.loads on a span: one object, whose members are members chunks      *)
(* without a raw newline, whitespace, or the nutritional_facts key         *)
(* followed by an object.  Anything else is a JSONDecodeError.             *)
(***************************************************************************)
DecodeFail == [ok |-> FALSE, val |-> EmptyDict, next |-> 0]
IsSpace(c) == c.kind \in {"nl", "sp"}

RECURSIVE SkipSpace(_, _)
SkipSpace(s, i) ==
  IF i <= Len(s) /\ IsSpace(s[i]) THEN SkipSpace(s, i + 1) ELSE i

RECURSIVE ParseMembers(_, _, _)
\* the members of an object from position i up to its closing brace
ParseMembers(s, i, acc) ==
  IF i > Len(s) THEN DecodeFail
  ELSE LET c == s[i] IN
    CASE c.kind = "}" -> [ok |-> TRUE, val |-> acc, next |-> i + 1]
      [] IsSpace(c) -> ParseMembers(s, i + 1, acc)
      [] c.kind = "members" ->
           IF c.rawnl THEN DecodeFail
           ELSE ParseMembers(s, i + 1, Merge(acc, c.d))
      [] c.kind = "nfkey" ->
           LET j == SkipSpace(s, i + 1) IN
           IF j <= Len(s) /\ s[j].kind = "{"
           THEN LET r == ParseMembers(s, j + 1, EmptyDict) IN
                IF r.ok
                THEN ParseMembers(s, r.next,
                                  Put(acc, "nutritional_facts", DictV(r.val)))
                ELSE DecodeFail
           ELSE DecodeFail
      [] OTHER -> DecodeFail

\* json.loads(span): the span is one object with nothing after it
json_loads(span) ==
  IF span = << >> \/ span[1].kind # "{" THEN DecodeFail
  ELSE LET r == ParseMembers(span, 2, EmptyDict) IN
       IF r.ok /\ r.next = Len(span) + 1 THEN r ELSE DecodeFail

(***************************************************************************)
(* The repair of the PDF parser: s.replace('\n', ' ').replace('  ', ' ').  *)
(***************************************************************************)
ReplaceNewline(c) ==
  IF c.kind = "nl" THEN SP
  ELSE IF c.kind = "members" THEN Chunk("members", c.d, FALSE)
  ELSE c

RECURSIVE CollapseSpaces(_)
\* one left-to-right pass that replaces each pair of spaces by one space
CollapseSpaces(s) ==
  IF Len(s) < 2 THEN s
  ELSE IF s[1].kind = "sp" /\ s[2].kind = "sp"
       THEN <<SP>> \o CollapseSpaces(SubSeq(s, 3, Len(s)))
       ELSE <<s[1]>> \o CollapseSpaces(Tail(s))

fixed_json(span) == CollapseSpaces([i \in 1..Len(span) |-> ReplaceNewline(span[i])])

(***************************************************************************)
(* AIService (app/ai_service.py).  An operator that may call a provider    *)
(* returns the recipe together with the provider calls it made, in order.  *)
(***************************************************************************)
\* the score a match must exceed to be named in the context (0.8, in 1/100)
ScoreThreshold == 80

\* outcomes of client.images.generate
ImageOutcomes == {"raise", "nodata", "url"}
ImageUrl == "https://images.example/dish.png"

\* an image step that answers a failed call with a stock picture
generate_recipe_image_stock(img) ==
  IF img = "url" THEN ImageUrl ELSE "https://images.example/stock.png"

\* _generate_recipe_image: the URL, or "" when the call raised or had no data
generate_recipe_image(img) == IF img = "url" THEN ImageUrl ELSE ""

\* the selection with the threshold itself let in (score >= 0.8)
RECURSIVE relevant_recipes_inclusive(_)
relevant_recipes_inclusive(similar) ==
  IF similar = << >> THEN << >>
  ELSE LET recipe == similar[1]
           recipe_info == recipe.metadata
           line == Format(Get(recipe_info, "name", StrV("Unknown"))) \o " - "
                   \o Format(Get(recipe_info, "cuisine", StrV("Unknown cuisine")))
       IN (IF recipe.score >= ScoreThreshold THEN <<line>> ELSE << >>)
          \o relevant_recipes_inclusive(Tail(similar))

\* the names of the similar recipes whose score exceeds the threshold
RECURSIVE relevant_recipes(_)
relevant_recipes(similar) ==
  IF similar = << >> THEN << >>
  ELSE LET recipe == similar[1]
           recipe_info == recipe.metadata
           line == Format(Get(recipe_info, "name", StrV("Unknown"))) \o " - "
                   \o Format(Get(recipe_info, "cuisine", StrV("Unknown cuisine")))
       IN (IF recipe.score > ScoreThreshold THEN <<line>> ELSE << >>)
          \o relevant_recipes(Tail(similar))

\* _create_context: the lines of the context; pick is random.choice's index
create_context(user_profile, similar_recipes, pick) ==
  LET favorite_foods == Get(user_profile, "favorite_foods", << >>)
      prefs == Get(user_profile, "dietary_preferences", << >>)
      foodPart == IF favorite_foods # << >>
                  THEN <<"User's primary favorite food: " \o favorite_foods[pick]>>
                  ELSE <<"User's favorite foods: Not specified">>
      prefPart == IF prefs # << >>
                  THEN <<"Dietary preferences: " \o JoinComma(prefs)>>
                  ELSE << >>
      relevant == relevant_recipes(similar_recipes)
      simPart == IF similar_recipes = << >> THEN << >>
                 ELSE IF relevant # << >>
                      THEN <<"Similar recipes for inspiration:", "1. " \o relevant[1]>>
                      ELSE <<"No highly relevant recipes found for inspiration.">>
  IN foodPart \o prefPart \o simPart

PlaceholderFacts ==
  [calories |-> IntV(300), protein |-> StrV("10g"),
   carbohydrates |-> StrV("40g"), fat |-> StrV("10g"), fiber |-> StrV("5g"),
   sugar |-> StrV("3g"), sodium |-> StrV("300mg")]

\* a static recipe that asks for the image again when the call failed
get_default_recipe_retrying(img, now) ==
  [recipe |->
     [recipe_name |-> StrV("Simple Pasta"),
      ingredients |-> ListV(<<"pasta", "olive oil", "garlic", "herbs", "salt">>),
      instructions |-> ListV(<<"Boil pasta according to package instructions",
                               "Heat olive oil in a pan",
                               "Add garlic and herbs",
                               "Combine with pasta and serve">>),
      cooking_time |-> StrV("20 minutes"),
      difficulty |-> StrV("Easy"),
      servings |-> IntV(2),
      serving_size |-> StrV("1 cup"),
      dietary_tags |-> ListV(<<"vegetarian">>),
      nutritional_facts |->
        DictV([calories |-> IntV(320), protein |-> StrV("8g"),
               carbohydrates |-> StrV("55g"), fat |-> StrV("8g"),
               fiber |-> StrV("3g"), sugar |-> StrV("2g"),
               sodium |-> StrV("250mg")]),
      image_prompt |-> StrV("A simple pasta dish with olive oil, garlic, and herbs served on a white plate"),
      generated_at |-> TimeV(now),
      image_url |-> StrV(generate_recipe_image(img))],
   calls |-> IF img = "url" THEN <<"image">> ELSE <<"image", "image">>]

\* _get_default_recipe: the static recipe; it calls the image provider
get_default_recipe(img, now) ==
  [recipe |->
     [recipe_name |-> StrV("Simple Pasta"),
      ingredients |-> ListV(<<"pasta", "olive oil", "garlic", "herbs", "salt">>),
      instructions |-> ListV(<<"Boil pasta according to package instructions",
                               "Heat olive oil in a pan",
                               "Add garlic and herbs",
                               "Combine with pasta and serve">>),
      cooking_time |-> StrV("20 minutes"),
      difficulty |-> StrV("Easy"),
      servings |-> IntV(2),
      serving_size |-> StrV("1 cup"),
      dietary_tags |-> ListV(<<"vegetarian">>),
      nutritional_facts |->
        DictV([calories |-> IntV(320), protein |-> StrV("8g"),
               carbohydrates |-> StrV("55g"), fat |-> StrV("8g"),
               fiber |-> StrV("3g"), sugar |-> StrV("2g"),
               sodium |-> StrV("250mg")]),
      image_prompt |-> StrV("A simple pasta dish with olive oil, garlic, and herbs served on a white plate"),
      generated_at |-> TimeV(now),
      image_url |-> StrV(generate_recipe_image(img))],
   calls |-> <<"image">>]

\* _fallback_parse: the fixed recipe for a text without a JSON object
fallback_parse(text) ==
  [recipe_name |-> StrV("Simple Recipe"),
   ingredients |-> ListV(<< >>),
   instructions |-> ListV(<< >>),
   cooking_time |-> StrV("30 minutes"),
   difficulty |-> StrV("Medium"),
   servings |-> IntV(4),
   serving_size |-> StrV("1 serving"),
   dietary_tags |-> ListV(<< >>),
   nutritional_facts |-> DictV(PlaceholderFacts),
   image_prompt |-> StrV("A delicious homemade dish served on a plate")]

\* the back-filling of image_prompt, serving_size and nutritional_facts
back_fill(recipe_json) ==
  LET name == Get(recipe_json, "recipe_name", StrV("Recipe"))
      j1 == IF Has(recipe_json, "image_prompt") THEN recipe_json
            ELSE Put(recipe_json, "image_prompt",
                     StrV("A delicious " \o Lower(name.v)
                          \o " served on a plate with garnishes"))
      j2 == IF Has(j1, "serving_size") THEN j1
            ELSE Put(j1, "serving_size", StrV("1 serving"))
  IN IF Has(j2, "nutritional_facts") THEN j2
     ELSE Put(j2, "nutritional_facts", DictV(PlaceholderFacts))

\* recipe_name.lower() raises AttributeError on a name that is no string
lower_raises(recipe_json) ==
  /\ ~Has(recipe_json, "image_prompt")
  /\ Get(recipe_json, "recipe_name", StrV("Recipe")).t # "str"

\* a decoding that, like the PDF parser's, tries the repaired span when
\* the span as matched does not decode
decode_span_with_repair(span) ==
  IF json_loads(span).ok THEN json_loads(span) ELSE json_loads(fixed_json(span))

\* recipe_json = json.loads(json_match.group()): one attempt, no repair
decode_span(span) == json_loads(span)

\* a parser that answers a text without a JSON object with the static recipe
no_json_object_static_default(text, img, now) == get_default_recipe(img, now)

\* the else branch of _parse_recipe_response: no JSON-like content was found
no_json_object(text, img, now) ==
  [recipe |-> fallback_parse(text), calls |-> << >>]

\* _parse_recipe_response; gen.kind = "none" is a response without content,
\* on which re.search raises TypeError
parse_recipe_response(gen, img, now) ==
  IF gen.kind = "none" THEN get_default_recipe(img, now)
  ELSE IF json_match(gen.text)
  THEN LET dec == decode_span(group(gen.text)) IN
       IF ~dec.ok \/ lower_raises(dec.val)
       THEN get_default_recipe(img, now)
       ELSE [recipe |-> back_fill(dec.val), calls |-> << >>]
  ELSE no_json_object(gen.text, img, now)

\* a call that ended in an exception, after the provider calls it made
Raised(calls) == [recipe |-> EmptyDict, calls |-> calls, raised |-> TRUE]

\* primary_food of _get_fallback_recipe; a plausible slip reads the legacy
\* singular field instead
fallback_primary_food_legacy_key(user_profile, pick) ==
  Get(user_profile, "favorite_food", "Recipe")

fallback_primary_food(user_profile, pick) ==
  LET favorite_foods == Get(user_profile, "favorite_foods", << >>) IN
  IF favorite_foods # << >> THEN favorite_foods[pick] ELSE "Recipe"

\* the image step of _get_fallback_recipe: it never raises, since
\* _generate_recipe_image returns "" on any failure and the call is guarded;
\* unguarded, a failure of the image provider would propagate
fallback_image_raises_unguarded(img) == img = "raise"

fallback_image_raises(img) == FALSE

\* _get_fallback_recipe: the recipe derived from the profile; the image call
\* is guarded, the read of student_id (KeyError) is not
get_fallback_recipe(user_profile, img, pick, now) ==
  LET primary_food == fallback_primary_food(user_profile, pick)
  IN IF ~Has(user_profile, "student_id") THEN Raised(<< >>)
     ELSE IF fallback_image_raises(img) THEN Raised(<<"image">>)
     ELSE
     [recipe |->
        [recipe_name |-> StrV("Simple " \o primary_food),
         ingredients |-> ListV(<<"ingredient1", "ingredient2", "ingredient3">>),
         instructions |-> ListV(<<"Step 1: Prepare ingredients",
                                  "Step 2: Cook according to preference",
                                  "Step 3: Serve and enjoy">>),
         cooking_time |-> StrV("30 minutes"),
         difficulty |-> StrV("Medium"),
         servings |-> IntV(4),
         serving_size |-> StrV("1 serving"),
         dietary_tags |-> ListV(Get(user_profile, "dietary_preferences", << >>)),
         nutritional_facts |->
           DictV([calories |-> IntV(350), protein |-> StrV("12g"),
                  carbohydrates |-> StrV("45g"), fat |-> StrV("12g"),
                  fiber |-> StrV("6g"), sugar |-> StrV("4g"),
                  sodium |-> StrV("350mg")]),
         image_prompt |-> StrV("A delicious " \o primary_food \o " served on a plate"),
         user_id |-> StrV(user_profile["student_id"]),
         generated_at |-> TimeV(now),
         image_url |-> StrV(generate_recipe_image(img))],
      calls |-> <<"image">>, raised |-> FALSE]

\* a metadata step that keeps a generated_at the recipe already carries and
\* forgets the user
add_metadata_timestamp_only(recipe_data, user_profile, now) ==
  IF Has(recipe_data, "generated_at") THEN recipe_data
  ELSE Put(recipe_data, "generated_at", TimeV(now))

\* "Add metadata": user_id and generated_at are set on the parsed recipe
add_metadata(recipe_data, user_profile, now) ==
  Put(Put(recipe_data, "user_id", StrV(user_profile["student_id"])),
      "generated_at", TimeV(now))

\* a try block with the image step switched on
try_image_calls_enabled(recipe_data) == <<"image">>

\* the image step of the try block: the call is commented out and
\* image_url is set to "", so no call is made
try_image_calls(recipe_data) == << >>

\* AIService.generate_recipe.  gen is the outcome of the chat completion
\* call, img that of the image call (if one is made), pick and pick2 the
\* indexes random.choice draws in _create_context and _get_fallback_recipe.
\* Whatever the try block raises is handled by _get_fallback_recipe.
ai_generate_recipe(user_profile, similar_recipes, gen, img, pick, pick2, now) ==
  LET context == create_context(user_profile, similar_recipes, pick)
      parsed == parse_recipe_response(gen, img, now)
      tryRaises == gen.kind = "raise" \/ ~Has(user_profile, "student_id")
      tryCalls == IF gen.kind = "raise" THEN <<"chat">>
                  ELSE <<"chat">> \o parsed.calls
                       \o try_image_calls(parsed.recipe)
  IN IF tryRaises
     THEN LET fb == get_fallback_recipe(user_profile, img, pick2, now) IN
          [recipe |-> fb.recipe, calls |-> tryCalls \o fb.calls,
           context |-> context, raised |-> fb.raised]
     ELSE LET r1 == Put(parsed.recipe, "image_url", StrV(""))
              r3 == add_metadata(r1, user_profile, now)
          IN [recipe |-> r3, calls |-> tryCalls, context |-> context,
              raised |-> FALSE]

(***************************************************************************)
(* State.                                                                  *)
(***************************************************************************)
VARIABLES
  users,          \* document store: user id -> profile, or NoProfile
  conversations,  \* document store: the conversation records, in order
  index,          \* vector index: the records, each with id and metadata
  now,            \* int(time.time()); a behaviour falls within one second
  served,         \* requests started so far
  req,            \* the request in flight (index0 and conversations0 are
                  \* the two stores as they were when it arrived)
  calls,          \* external operations of the request in flight, in order
  resp            \* the response to the request in flight

vars == <<users, conversations, index, now, served, req, calls, resp>>

NoProfile == EmptyDict
\* the first characters of a uuid4
Uuids == {"1a2b3c4d", "5e6f7a8b"}
\* similarity scores, in 1/100
Scores == {90, 80}

UserIds == {"s1", "s2", "s3", "s4", "ghost"}
StoredUsers ==
  [u \in UserIds |->
     CASE u = "s1" -> [student_id |-> "s1", name |-> "Ada",
                       favorite_foods |-> <<"pasta", "pizza">>,
                       dietary_preferences |-> <<"vegetarian">>]
       [] u = "s2" -> [student_id |-> "s2", name |-> "Bo",
                       favorite_foods |-> <<"curry">>,
                       dietary_preferences |-> << >>]
       [] u = "s3" -> [student_id |-> "s3", name |-> "Cy",
                       favorite_foods |-> << >>,
                       dietary_preferences |-> <<"vegan">>]
       [] u = "s4" -> [student_id |-> "s4", name |-> "Di",
                       favorite_food |-> "pizza",
                       dietary_preferences |-> << >>]
       [] OTHER -> NoProfile]

\* a record written earlier by store_recipe("recipe_1", ...)
SeedIndex ==
  {[id |-> "recipe_1_0_9f8e7d6c",
    metadata |-> [id |-> StrV("recipe_1"), name |-> StrV("Veggie Pasta"),
                  ingredients |-> ListV(<<"spaghetti", "courgette">>),
                  instructions |-> ListV(<<"Boil pasta", "Toss">>),
                  cuisine |-> StrV("Italian"), difficulty |-> StrV("Medium"),
                  cooking_time |-> StrV("20 minutes")]]}

NoGen == [kind |-> "none", text |-> << >>]
IdleReq ==
  [pc |-> "idle", user_id |-> "", user_profile |-> NoProfile,
   primary_favorite |-> "", similar_recipes |-> << >>, gen |-> NoGen,
   img |-> "nodata",
   recipe_data |-> EmptyDict, context |-> << >>, raised |-> FALSE,
   generated_recipe_id |-> "", vector_recipe_data |-> EmptyDict,
   vector_store_success |-> FALSE, append |-> "", conversation_id |-> NoneV,
   index0 |-> {}, conversations0 |-> << >>]
NoResp == [status |-> 0, body |-> EmptyDict]

\* outcomes of client.chat.completions.create over a set of texts
GenOutcomes(texts) ==
  {[kind |-> "raise", text |-> << >>], NoGen}
  \cup {[kind |-> "text", text |-> t] : t \in texts}

\* the indexes random.choice can draw from the profile's favorite_foods
Picks(user_profile) ==
  LET n == Len(Get(user_profile, "favorite_foods", << >>)) IN
  IF n = 0 THEN {1} ELSE 1..n

\* whether the call reaches the image provider
CallsImage(gen) ==
  gen.kind = "raise" \/ parse_recipe_response(gen, "nodata", 0).calls # << >>

(***************************************************************************)
(* Document store (app/database.py is not among the sources: get_user and  *)
(* store_conversation_history follow the specification's contracts).       *)
(***************************************************************************)
\* getProfile(id) -> UserProfile | NotFound
get_user(user_id) ==
  IF user_id \in DOMAIN users THEN users[user_id] ELSE NoProfile

\* the id a conversation append mints: generated, unique
next_conversation_id == "conv_" \o ToString(Len(conversations) + 1)
\* outcomes of the append: stored; an error raised; an error swallowed (None)
AppendOutcomes == {"ok", "raise", "none"}
store_conversation_history(user_id, recipe_data) ==
  Append(conversations,
         [conversation_id |-> next_conversation_id, user_id |-> user_id,
          recipe_data |-> recipe_data, timestamp |-> now,
          type |-> "recipe_generation"])

(***************************************************************************)
(* VectorStore (app/vector_store.py).                                      *)
(***************************************************************************)
\* the match lists index.query can answer with: at most top_k records of
\* the index, each with a score, highest score first
RECURSIVE Descending(_)
Descending(q) ==
  Len(q) < 2 \/ (q[1].score >= q[2].score /\ Descending(Tail(q)))
Distinct(q) == \A i, j \in 1..Len(q) : i # j => q[i].id # q[j].id
MatchOf(rec, score) ==
  [id |-> rec.id, score |-> score,
   name |-> Get(rec.metadata, "name", StrV("Unknown")),
   metadata |-> rec.metadata]
MatchListsOver(records, top_k) ==
  LET M == {MatchOf(r, sc) : r \in records, sc \in Scores} IN
  {q \in UNION {[1..n -> M] : n \in 0..top_k} : Distinct(q) /\ Descending(q)}
MatchLists(top_k) == MatchListsOver(index, top_k)

\* outcomes of search_similar_recipes: what it returns and the calls it made
SearchOutcomes(top_k) ==
  {[recipes |-> << >>, calls |-> <<"embed">>],
   [recipes |-> << >>, calls |-> <<"embed", "query">>]}
  \cup {[recipes |-> q, calls |-> <<"embed", "query">>] : q \in MatchLists(top_k)}

\* a store_recipe that upserts under the id it was given
unique_id_as_given(recipe_id, uuid) == recipe_id

\* store_recipe: the id it upserts under
unique_id(recipe_id, uuid) == recipe_id \o "_" \o ToString(now) \o "_" \o uuid
\* outcomes of store_recipe: the embedding fails, the upsert fails, stored
StoreOutcomes == {"embed_fails", "upsert_fails", "stored"}
\* index.upsert: a record with the same id is replaced
upsert(id, metadata) ==
  {r \in index : r.id # id} \cup {[id |-> id, metadata |-> metadata]}

(***************************************************************************)
(* The response model (app/models.py, RecipeResponse): every field is      *)
(* required and typed.  An int given for a str field is accepted by some   *)
(* versions of the validation library and rejected by others; no text of   *)
(* ProviderTexts leads to one.                                             *)
(***************************************************************************)
RecipeResponseFields ==
  [user_id |-> "str", recipe_name |-> "str", ingredients |-> "list",
   instructions |-> "list", cooking_time |-> "str", difficulty |-> "str",
   servings |-> "int", serving_size |-> "str", dietary_tags |-> "list",
   nutritional_facts |-> "dict", image_prompt |-> "str", image_url |-> "str",
   conversation_id |-> "str", generated_at |-> "datetime"]

\* RecipeResponse(**recipe_data) does not raise a validation error
RecipeResponse(recipe_data) ==
  \A f \in DOMAIN RecipeResponseFields :
    Has(recipe_data, f) /\ recipe_data[f].t = RecipeResponseFields[f]

(***************************************************************************)
(* GET /recipe/{user_id} (app/routes/recipes.py, generate_recipe), one     *)
(* action per stretch of the handler between two external calls.           *)
(***************************************************************************)
\* raise HTTPException(status_code=...): the handler ends
HttpError(status) ==
  /\ resp' = [status |-> status, body |-> EmptyDict]
  /\ req' = [req EXCEPT !.pc = "done"]

\* str(x)
PyStr(x) ==
  CASE x.t = "str" -> x.v
    [] x.t = "datetime" -> "2025-08-03T16:52:" \o ToString(x.v)
    [] x.t = "int" -> ToString(x.v)
    [] OTHER -> "<" \o x.t \o ">"

\* the metadata of a handler that appends the conversation first and so
\* has its id at hand
vector_recipe_data_after_append(user_id, recipe_data) ==
  [name |-> Get(recipe_data, "recipe_name", StrV("Generated Recipe")),
   ingredients |-> Get(recipe_data, "ingredients", ListV(<< >>)),
   instructions |-> Get(recipe_data, "instructions", ListV(<< >>)),
   cuisine |-> StrV("AI Generated"),
   difficulty |-> Get(recipe_data, "difficulty", StrV("Medium")),
   cooking_time |-> Get(recipe_data, "cooking_time", StrV("30 minutes")),
   servings |-> Get(recipe_data, "servings", IntV(4)),
   description |-> StrV("AI-generated recipe for " \o user_id),
   generated_for_user |-> StrV(user_id),
   generated_at |-> StrV(PyStr(Get(recipe_data, "generated_at", StrV("")))),
   conversation_id |-> StrV(next_conversation_id),
   dietary_tags |-> Get(recipe_data, "dietary_tags", ListV(<< >>)),
   user_id |-> Get(recipe_data, "user_id", StrV(user_id))]

\* the metadata the handler prepares for the vector index
vector_recipe_data(user_id, recipe_data) ==
  [name |-> Get(recipe_data, "recipe_name", StrV("Generated Recipe")),
   ingredients |-> Get(recipe_data, "ingredients", ListV(<< >>)),
   instructions |-> Get(recipe_data, "instructions", ListV(<< >>)),
   cuisine |-> StrV("AI Generated"),
   difficulty |-> Get(recipe_data, "difficulty", StrV("Medium")),
   cooking_time |-> Get(recipe_data, "cooking_time", StrV("30 minutes")),
   servings |-> Get(recipe_data, "servings", IntV(4)),
   description |-> StrV("AI-generated recipe for " \o user_id),
   generated_for_user |-> StrV(user_id),
   generated_at |-> StrV(PyStr(Get(recipe_data, "generated_at", StrV("")))),
   conversation_id |-> Get(recipe_data, "conversation_id", StrV("")),
   dietary_tags |-> Get(recipe_data, "dietary_tags", ListV(<< >>)),
   user_id |-> Get(recipe_data, "user_id", StrV(user_id))]

\* a handler that appends the conversation before the vector write
stage_after_append_first(pc) ==
  CASE pc = "lookup" -> "retrieve"
    [] pc = "retrieve" -> "generate"
    [] pc = "generate" -> "append"
    [] pc = "append" -> "store"
    [] pc = "store" -> "done"

\* the order of the handler's steps
stage_after(pc) ==
  CASE pc = "lookup" -> "retrieve"
    [] pc = "retrieve" -> "generate"
    [] pc = "generate" -> "store"
    [] pc = "store" -> "append"
    [] pc = "append" -> "done"

\* an id minted from the user and the second only
generated_recipe_id_without_uuid(user_id, uuid) ==
  "generated_" \o user_id \o "_" \o ToString(now)

\* generated_recipe_id = f"generated_{user_id}_{int(time.time())}_{uuid[:8]}"
generated_recipe_id_of(user_id, uuid) ==
  "generated_" \o user_id \o "_" \o ToString(now) \o "_" \o uuid

\* a handler that queries with the last favorite food
primary_favorite_last(favorite_foods) == favorite_foods[Len(favorite_foods)]

\* primary_favorite = favorite_foods[0]
primary_favorite_of(favorite_foods) == favorite_foods[1]

\* a client sends GET /recipe/{user_id}
StartRequest(u) ==
  /\ req.pc \in {"idle", "done"}
  /\ served < MaxRequests
  /\ served' = served + 1
  /\ req' = [IdleReq EXCEPT !.pc = "lookup", !.user_id = u,
                            !.index0 = index, !.conversations0 = conversations]
  /\ calls' = << >>
  /\ resp' = NoResp
  /\ UNCHANGED <<users, conversations, index, now>>

\* the checks of Steps 1 and 2 in another order: favorite_foods first
lookup_status_foods_first(user_profile) ==
  IF Get(user_profile, "favorite_foods", << >>) = << >> THEN 400
  ELSE IF user_profile = NoProfile THEN 404
  ELSE 0

\* the handler without its check of favorite_foods: favorite_foods[0] raises
\* IndexError, which the handler turns into 500
lookup_status_no_foods_check(user_profile) ==
  IF user_profile = NoProfile THEN 404
  ELSE IF Get(user_profile, "favorite_foods", << >>) = << >> THEN 500
  ELSE 0

\* the error the handler raises after the profile lookup, 0 for none
lookup_status(user_profile) ==
  IF user_profile = NoProfile THEN 404
  ELSE IF Get(user_profile, "favorite_foods", << >>) = << >> THEN 400
  ELSE 0

\* Step 1 and the check of favorite_foods
Lookup ==
  /\ req.pc = "lookup"
  /\ calls' = Append(calls, "get_user")
  /\ LET user_profile == get_user(req.user_id)
         favorite_foods == Get(user_profile, "favorite_foods", << >>)
     IN IF lookup_status(user_profile) # 0
        THEN HttpError(lookup_status(user_profile))
        ELSE /\ req' = [req EXCEPT !.pc = stage_after("lookup"),
                                   !.user_profile = user_profile,
                                   !.primary_favorite =
                                      primary_favorite_of(favorite_foods)]
             /\ UNCHANGED resp
  /\ UNCHANGED <<users, conversations, index, now, served>>

\* Step 2: the similarity search and the read of its first match
Retrieve ==
  /\ req.pc = "retrieve"
  /\ \E o \in SearchOutcomes(2) :
       /\ calls' = calls \o o.calls
       /\ IF o.recipes = << >>
          THEN HttpError(500)  \* similar_recipes[0]: IndexError
          ELSE /\ req' = [req EXCEPT !.pc = stage_after("retrieve"),
                                     !.similar_recipes = o.recipes]
               /\ UNCHANGED resp
  /\ UNCHANGED <<users, conversations, index, now, served>>

\* Step 3, and the preparation of the vector record (Step 4)
Generate ==
  /\ req.pc = "generate"
  /\ \E gen \in GenOutcomes(ProviderTexts), pick \in Picks(req.user_profile),
        uuid \in Uuids :
     \E img \in IF CallsImage(gen) THEN ImageOutcomes ELSE {"nodata"},
        pick2 \in IF gen.kind = "raise" THEN Picks(req.user_profile) ELSE {1} :
       LET out == ai_generate_recipe(req.user_profile, req.similar_recipes,
                                     gen, img, pick, pick2, now)
           generated_recipe_id == generated_recipe_id_of(req.user_id, uuid)
       IN /\ calls' = calls \o out.calls
          /\ IF out.raised
             THEN /\ resp' = [status |-> 500, body |-> EmptyDict]
                  /\ req' = [req EXCEPT !.pc = "done", !.gen = gen,
                                        !.img = img, !.raised = TRUE]
             ELSE /\ req' = [req EXCEPT
                       !.pc = stage_after("generate"), !.gen = gen, !.img = img,
                       !.recipe_data = out.recipe, !.context = out.context,
                       !.generated_recipe_id = generated_recipe_id,
                       !.vector_recipe_data =
                          vector_recipe_data(req.user_id, out.recipe)]
                  /\ UNCHANGED resp
  /\ UNCHANGED <<users, conversations, index, now, served>>

\* a handler that gives up when the vector write failed
store_status_fatal(vector_store_success) ==
  IF vector_store_success THEN 0 ELSE 500

\* the error the handler raises after store_recipe, 0 for none: both
\* branches of "if vector_store_success" only log
store_status(vector_store_success) == 0

\* Step 4: vector_store.store_recipe, whose failure is only logged
StoreVector ==
  /\ req.pc = "store"
  /\ \E o \in StoreOutcomes :
     \E uuid \in IF o = "stored" THEN Uuids ELSE {"1a2b3c4d"} :
       /\ calls' = calls \o (IF o = "embed_fails" THEN <<"embed">>
                             ELSE <<"embed", "upsert">>)
       /\ index' = IF o = "stored"
                   THEN upsert(unique_id(req.generated_recipe_id, uuid),
                               req.vector_recipe_data)
                   ELSE index
       /\ IF store_status(o = "stored") # 0
          THEN /\ resp' = [status |-> store_status(o = "stored"),
                           body |-> EmptyDict]
               /\ req' = [req EXCEPT !.pc = "done",
                                     !.vector_store_success = (o = "stored")]
          ELSE /\ req' = [req EXCEPT !.pc = stage_after("store"),
                                     !.vector_store_success = (o = "stored")]
               /\ UNCHANGED resp
  /\ UNCHANGED <<users, conversations, now, served>>

\* the handler with the append's error only logged, like the vector write's
respond_swallowing(o, recipe_data) ==
  IF o = "raise" \/ RecipeResponse(recipe_data)
  THEN [status |-> 200, body |-> recipe_data]
  ELSE [status |-> 500, body |-> EmptyDict]

\* Steps 6 and 7 and the handler's except clauses: the response, given the
\* outcome of the append and recipe_data with conversation_id set
respond(o, recipe_data) ==
  IF o # "raise" /\ RecipeResponse(recipe_data)
  THEN [status |-> 200, body |-> recipe_data]
  ELSE [status |-> 500, body |-> EmptyDict]

\* a handler that answers with the id minted for the vector record
set_conversation_id_recipe_id(recipe_data, conversation_id) ==
  IF conversation_id.t = "str"
  THEN Put(recipe_data, "conversation_id", StrV(req.generated_recipe_id))
  ELSE Put(recipe_data, "conversation_id", conversation_id)

\* Step 6: recipe_data["conversation_id"] = conversation_id
set_conversation_id(recipe_data, conversation_id) ==
  Put(recipe_data, "conversation_id", conversation_id)

\* a handler that takes its vector record back when the append failed
index_after_append_compensating(o) ==
  IF o = "ok" THEN index ELSE req.index0

\* the index after the append: the except clauses only log and raise
index_after_append(o) == index

\* Steps 5 to 7: the conversation append and the response
AppendConversation ==
  /\ req.pc = "append"
  /\ calls' = Append(calls, "store_conversation_history")
  /\ \E o \in AppendOutcomes :
       LET conversation_id == IF o = "ok" THEN StrV(next_conversation_id)
                              ELSE NoneV
           recipe_data == set_conversation_id(req.recipe_data, conversation_id)
       IN /\ conversations' =
               IF o = "ok"
               THEN store_conversation_history(req.user_id, req.recipe_data)
               ELSE conversations
          /\ resp' = respond(o, recipe_data)
          /\ req' = IF o = "raise"
                    THEN [req EXCEPT !.pc = "done", !.append = o]
                    ELSE [req EXCEPT !.pc = stage_after("append"), !.append = o,
                                     !.conversation_id = conversation_id,
                                     !.recipe_data = recipe_data]
          /\ index' = index_after_append(o)
  /\ UNCHANGED <<users, now, served>>

Init ==
  /\ users = StoredUsers
  /\ conversations = << >>
  /\ index = SeedIndex
  /\ now = 0
  /\ served = 0
  /\ req = IdleReq
  /\ calls = << >>
  /\ resp = NoResp

Next ==
  \/ \E u \in UserIds : StartRequest(u)
  \/ Lookup
  \/ Retrieve
  \/ Generate
  \/ StoreVector
  \/ AppendConversation

Spec == Init /\ [][Next]_vars

(***************************************************************************)
(* AIService.generate_recipe on its own: every profile with a favorite     *)
(* food, with and without similar recipes, every provider outcome over     *)
(* Texts.                                                                  *)
(***************************************************************************)
SynthProfiles == {StoredUsers["s1"], StoredUsers["s2"]}
\* another record written earlier by store_recipe("recipe_2", ...)
SeedIndex2 ==
  {[id |-> "recipe_2_0_0a1b2c3d",
    metadata |-> [id |-> StrV("recipe_2"), name |-> StrV("Margherita Pizza"),
                  ingredients |-> ListV(<<"dough", "tomato", "mozzarella">>),
                  instructions |-> ListV(<<"Shape", "Top", "Bake">>),
                  cuisine |-> StrV("Neapolitan"), difficulty |-> StrV("Medium"),
                  cooking_time |-> StrV("25 minutes")]]}
\* what search_similar_recipes(..., top_k=2) can return over two records
SynthSimilar == MatchListsOver(SeedIndex \cup SeedIndex2, 2)

SynthInit ==
  /\ users = StoredUsers
  /\ conversations = << >>
  /\ index = SeedIndex
  /\ now = 0
  /\ served = 0
  /\ calls = << >>
  /\ resp = NoResp
  /\ \E p \in SynthProfiles, sim \in SynthSimilar :
       req = [IdleReq EXCEPT !.pc = "synth", !.user_id = p["student_id"],
                             !.user_profile = p, !.similar_recipes = sim]

\* one call of ai_service.generate_recipe(user_profile, similar_recipes)
Synthesize ==
  /\ req.pc = "synth"
  /\ \E gen \in GenOutcomes(Texts), pick \in Picks(req.user_profile) :
     \E img \in IF CallsImage(gen) THEN ImageOutcomes ELSE {"nodata"},
        pick2 \in IF gen.kind = "raise" THEN Picks(req.user_profile) ELSE {1} :
       LET out == ai_generate_recipe(req.user_profile, req.similar_recipes,
                                     gen, img, pick, pick2, now)
       IN /\ calls' = out.calls
          /\ req' = [req EXCEPT !.pc = "returned", !.gen = gen, !.img = img,
                                !.recipe_data = out.recipe,
                                !.context = out.context,
                                !.raised = out.raised]
  /\ UNCHANGED <<users, conversations, index, now, served, resp>>

SynthNext == Synthesize

SpecSynth == SynthInit /\ [][SynthNext]_vars

(***************************************************************************)
(* The other endpoints: GET /recipe/search, GET /recipe/{user_id}/history, *)
(* GET /user/{user_id} and POST /recipe/upload-pdf-recipes.  Each handler  *)
(* is one action; req records the request last served and, in prev, the    *)
(* answer to the history request served just before it.                    *)
(***************************************************************************)
\* conversation records appended by earlier generations, oldest first
SeedConversations ==
  <<[conversation_id |-> "conv_1", user_id |-> "s1",
     recipe_data |-> [recipe_name |-> StrV("Stew")], timestamp |-> 0,
     type |-> "recipe_generation"],
    [conversation_id |-> "conv_2", user_id |-> "s2",
     recipe_data |-> [recipe_name |-> StrV("Veggie Pasta")], timestamp |-> 0,
     type |-> "recipe_generation"],
    [conversation_id |-> "conv_3", user_id |-> "s1",
     recipe_data |-> [recipe_name |-> StrV("Simple Recipe")], timestamp |-> 0,
     type |-> "recipe_generation"]>>

NoPrev == [user_id |-> "", limit |-> 0, resp |-> NoResp]
ApiIdle ==
  [pc |-> "idle", user_id |-> "", query |-> "", top_k |-> 0, limit |-> 0,
   outcome |-> "", user |-> NoProfile, filename |-> "", recipes |-> << >>,
   outs |-> << >>, prev |-> NoPrev,
   users0 |-> << >>, conversations0 |-> << >>, index0 |-> {}]

\* the request that req' describes, given what the stores are now
ApiRequest(pc) ==
  [ApiIdle EXCEPT !.pc = pc, !.users0 = users,
                  !.conversations0 = conversations, !.index0 = index]

\* GET /recipe/search ------------------------------------------------------
Queries == {"pasta", "curry"}
TopKs == {0, 1, 2}

\* a handler that reads the first result, as generate_recipe does
search_response_first_result(query, recipes) ==
  IF recipes = << >> THEN [status |-> 500, body |-> EmptyDict]
  ELSE [status |-> 200,
        body |-> [query |-> query, results |-> recipes,
                  total_found |-> Len(recipes)]]

\* the answer of search_recipes to what search_similar_recipes returned
search_response(query, recipes) ==
  [status |-> 200,
   body |-> [query |-> query, results |-> recipes,
             total_found |-> Len(recipes)]]

search_recipes(query, top_k) ==
  /\ served < MaxRequests + 1
  /\ served' = served + 1
  /\ \E o \in SearchOutcomes(top_k) :
       /\ calls' = o.calls
       /\ resp' = search_response(query, o.recipes)
       /\ req' = [ApiRequest("searched") EXCEPT
                    !.query = query, !.top_k = top_k,
                    !.outcome = IF o.recipes # << >> THEN "matches"
                                ELSE IF o.calls = <<"embed">> THEN "embed_fails"
                                ELSE "no_matches"]
  /\ UNCHANGED <<users, conversations, index, now>>

\* GET /recipe/{user_id}/history -------------------------------------------
Limits == {1, 2}

RECURSIVE NewestFirst(_, _)
NewestFirst(records, user_id) ==
  IF records = << >> THEN << >>
  ELSE NewestFirst(Tail(records), user_id)
       \o (IF Head(records).user_id = user_id THEN <<Head(records)>> ELSE << >>)

\* listConversations(user_id, limit): the user's records, most recent
\* first, at most limit of them
get_conversation_history(user_id, limit) ==
  LET mine == NewestFirst(conversations, user_id) IN
  SubSeq(mine, 1, Min({limit, Len(mine)}))

\* a handler without "except HTTPException: raise": its 404 becomes a 500
history_status_unguarded(user_profile) ==
  IF user_profile = NoProfile THEN 500 ELSE 0

\* the error get_user_conversation_history raises, 0 for none
history_status(user_profile) ==
  IF user_profile = NoProfile THEN 404 ELSE 0

get_user_conversation_history(user_id, limit) ==
  /\ served < MaxRequests + 1
  /\ served' = served + 1
  /\ LET user_profile == get_user(user_id) IN
       IF history_status(user_profile) # 0
       THEN /\ calls' = <<"get_user">>
            /\ resp' = [status |-> history_status(user_profile),
                        body |-> EmptyDict]
       ELSE /\ calls' = <<"get_user", "get_conversation_history">>
            /\ resp' = [status |-> 200,
                        body |-> get_conversation_history(user_id, limit)]
  /\ req' = [ApiRequest("history") EXCEPT
               !.user_id = user_id, !.limit = limit,
               !.prev = IF req.pc = "history"
                        THEN [user_id |-> req.user_id, limit |-> req.limit,
                              resp |-> resp]
                        ELSE NoPrev]
  /\ UNCHANGED <<users, conversations, index, now>>

\* GET /user/{user_id} -----------------------------------------------------
\* a record without the field k
Without(d, k) == [x \in DOMAIN d \ {k} |-> d[x]]

IsLegacy(user) == Has(user, "favorite_food") /\ ~Has(user, "favorite_foods")

\* a handler without the migration: the profile is taken as stored
migrate_skipped(user) == user

\* "Handle migration from favorite_food to favorite_foods"
migrate(user) ==
  IF IsLegacy(user)
  THEN Without(Put(user, "favorite_foods", <<user["favorite_food"]>>),
               "favorite_food")
  ELSE user

\* "Ensure favorite_foods exists"
ensure_favorite_foods(user) ==
  IF Has(user, "favorite_foods") THEN user
  ELSE Put(user, "favorite_foods", << >>)

\* UserProfileResponse(**user) does not raise a validation error
UserProfileResponse(user) ==
  \A f \in {"student_id", "name", "favorite_foods", "dietary_preferences"} :
    Has(user, f)

\* outcomes of mongodb.create_or_update_user: written; not written and
\* False returned; an error raised
WriteOutcomes == {"ok", "false", "raise"}
\* upsert keyed by the profile's id
create_or_update_user(user_data) ==
  [users EXCEPT ![user_data["student_id"]] = user_data]

get_user_profile(user_id) ==
  /\ served < MaxRequests + 1
  /\ served' = served + 1
  /\ LET stored == get_user(user_id)
         user == ensure_favorite_foods(migrate(stored))
     IN \E w \in IF stored # NoProfile /\ IsLegacy(stored)
                 THEN WriteOutcomes ELSE {"none"} :
          /\ calls' = IF w = "none" THEN <<"get_user">>
                      ELSE <<"get_user", "create_or_update_user">>
          /\ users' = IF w = "ok" THEN create_or_update_user(migrate(stored))
                      ELSE users
          /\ resp' = IF stored = NoProfile
                     THEN [status |-> 404, body |-> EmptyDict]
                     ELSE IF w # "raise" /\ UserProfileResponse(user)
                     THEN [status |-> 200, body |-> user]
                     ELSE [status |-> 500, body |-> EmptyDict]
          /\ req' = [ApiRequest("user") EXCEPT
                       !.user_id = user_id, !.user = stored, !.outcome = w]
  /\ UNCHANGED <<conversations, index, now>>

\* POST /recipe/upload-pdf-recipes -----------------------------------------
Filenames == {"recipes.pdf", "Menu.PDF", "notes.txt"}
\* file.filename.lower().endswith('.pdf')
IsPdf(filename) == filename \in {"recipes.pdf", "Menu.PDF"}

PdfRecipe(name, food) ==
  [name |-> StrV(name), ingredients |-> ListV(<<food>>),
   instructions |-> ListV(<<"Cook " \o food>>), cuisine |-> StrV("Indian")]
\* what parse_recipe_from_text can return: a non-empty list of recipes
ParsedRecipes ==
  {<<PdfRecipe("Dal", "lentils")>>,
   <<PdfRecipe("Dal", "lentils"), PdfRecipe("Raita", "yogurt")>>,
   <<[ingredients |-> ListV(<<"rice">>)], PdfRecipe("Dal", "lentils")>>}
\* process_pdf_recipes: the recipes, each given the id recipe_pdf_{i+1}
process_pdf_recipes(parsed) ==
  [i \in 1..Len(parsed) |->
     Put(parsed[i], "id", StrV("recipe_pdf_" \o ToString(i)))]
\* outcomes of process_pdf_recipes: an error raised (unreadable file, no
\* JSON in the provider's answer, empty array), or the recipes
Extractions ==
  {[kind |-> "raise", recipes |-> << >>]}
  \cup {[kind |-> "recipes", recipes |-> process_pdf_recipes(p)] :
          p \in ParsedRecipes}

\* the id upload_pdf_recipes mints for the recipe at position i (from 0);
\* the ids of one request differ by position, so one uuid stands for them
pdf_unique_id(i, uuid) ==
  "recipe_pdf_" \o ToString(now) \o "_" \o ToString(i) \o "_" \o uuid

\* a loop that stops at the first failed write
uploaded_recipes_until_failure(recipes, outs, uuid) ==
  LET n == IF \E i \in 1..Len(recipes) : outs[i] # "stored"
           THEN Min({i \in 1..Len(recipes) : outs[i] # "stored"})
           ELSE Len(recipes)
  IN [i \in 1..n |->
        [id |-> pdf_unique_id(i - 1, uuid),
         name |-> Get(recipes[i], "name", StrV("Unknown")),
         status |-> IF outs[i] = "stored" THEN "uploaded" ELSE "failed"]]

\* the entries the loop appends: outs[i] is the outcome of store_recipe
\* for the recipe at position i
uploaded_recipes(recipes, outs, uuid) ==
  [i \in 1..Len(recipes) |->
     [id |-> pdf_unique_id(i - 1, uuid),
      name |-> Get(recipes[i], "name", StrV("Unknown")),
      status |-> IF outs[i] = "stored" THEN "uploaded" ELSE "failed"]]

\* the error upload_pdf_recipes ends in, 0 for none: the HTTPException(400)
\* it raises is caught by its own "except Exception" and answered with 500
upload_status(filename, extraction) ==
  IF ~IsPdf(filename) THEN 500
  ELSE IF extraction.kind = "raise" THEN 500
  ELSE IF extraction.recipes = << >> THEN 500
  ELSE 0

\* the calls of the store_recipe loop, in order
RECURSIVE StoreCalls(_)
StoreCalls(outs) ==
  IF outs = << >> THEN << >>
  ELSE (IF Head(outs) = "embed_fails" THEN <<"embed">>
        ELSE <<"embed", "upsert">>) \o StoreCalls(Tail(outs))

upload_pdf_recipes(filename) ==
  /\ served < MaxRequests + 1
  /\ served' = served + 1
  /\ \E x \in IF IsPdf(filename) THEN Extractions
              ELSE {[kind |-> "none", recipes |-> << >>]}, uuid \in Uuids :
     \E outs \in [1..Len(x.recipes) -> StoreOutcomes] :
       LET recipes == x.recipes
           entries == uploaded_recipes(recipes, outs, uuid)
           written == {i \in 1..Len(entries) : outs[i] = "stored"}
           ids == {unique_id(entries[i].id, uuid) : i \in written}
       IN /\ IF upload_status(filename, x) # 0
             THEN /\ resp' = [status |-> upload_status(filename, x),
                              body |-> EmptyDict]
                  /\ index' = index
                  /\ calls' = IF IsPdf(filename) THEN <<"extract">> ELSE << >>
             ELSE /\ resp' =
                       [status |-> 200,
                        body |-> [message |-> "Processed "
                                    \o ToString(Len(recipes)) \o " recipes from PDF",
                                  uploaded_recipes |-> entries,
                                  total_uploaded |->
                                    Cardinality({i \in 1..Len(entries) :
                                      entries[i].status = "uploaded"})]]
                  /\ index' = {r \in index : r.id \notin ids}
                              \cup {[id |-> unique_id(entries[i].id, uuid),
                                     metadata |-> recipes[i]] : i \in written}
                  /\ calls' = <<"extract">> \o StoreCalls(outs)
          /\ req' = [ApiRequest("uploaded") EXCEPT
                       !.filename = filename, !.recipes = recipes,
                       !.outs = outs, !.outcome = x.kind]
  /\ UNCHANGED <<users, conversations, now>>

ApiInit ==
  /\ users = StoredUsers
  /\ conversations \in {<< >>, SeedConversations}
  /\ index = SeedIndex
  /\ now = 0
  /\ served = 0
  /\ req = ApiIdle
  /\ calls = << >>
  /\ resp = NoResp

ApiNext ==
  \/ \E query \in Queries, top_k \in TopKs : search_recipes(query, top_k)
  \/ \E u \in UserIds, limit \in Limits : get_user_conversation_history(u, limit)
  \/ \E u \in UserIds : get_user_profile(u)
  \/ \E f \in Filenames : upload_pdf_recipes(f)

SpecApi == ApiInit /\ [][ApiNext]_vars

(***************************************************************************)
(* Generation requests in flight at once.  Each request is a pipeline of   *)
(* its own; requests interleave at their external calls and share nothing  *)
(* but the two stores and the clock.  Steps 1 to 3 are one step here: what *)
(* matters is the ids minted and the writes of Steps 4 and 5.  req, calls  *)
(* and resp hold one entry per request.  The requests fall within one      *)
(* second, the case in which the time in the ids does not tell them apart. *)
(***************************************************************************)
InFlight == 1..MaxInFlight
ConcUsers == {"s1", "s2"}

ConcIdle ==
  [pc |-> "idle", user_id |-> "", recipe_data |-> EmptyDict,
   uuid |-> "", store_uuid |-> "", generated_recipe_id |-> "",
   record_id |-> "", vector_recipe_data |-> EmptyDict,
   vector_store_success |-> FALSE, append |-> "", conversation_id |-> NoneV]

\* Steps 1 to 3 and the minting of generated_recipe_id, for a user with
\* favorite foods whose generation call failed
ConcGenerate(r, u) ==
  /\ req[r].pc = "idle"
  /\ \E uuid \in Uuids :
       LET out == ai_generate_recipe(get_user(u), << >>,
                                     [kind |-> "raise", text |-> << >>],
                                     "nodata", 1, 1, now)
       IN /\ req' = [req EXCEPT ![r] =
                       [ConcIdle EXCEPT
                          !.pc = "store", !.user_id = u, !.uuid = uuid,
                          !.recipe_data = out.recipe,
                          !.generated_recipe_id = generated_recipe_id_of(u, uuid),
                          !.vector_recipe_data =
                             vector_recipe_data(u, out.recipe)]]
          /\ calls' = [calls EXCEPT ![r] = <<"get_user", "embed", "query">>
                                           \o out.calls]
  /\ served' = served + 1
  /\ UNCHANGED <<users, conversations, index, now, resp>>

\* Step 4 of request r
ConcStoreVector(r) ==
  /\ req[r].pc = "store"
  /\ \E o \in {"upsert_fails", "stored"} :
     \E uuid \in IF o = "stored" THEN Uuids ELSE {"1a2b3c4d"} :
       /\ index' = IF o = "stored"
                   THEN upsert(unique_id(req[r].generated_recipe_id, uuid),
                               req[r].vector_recipe_data)
                   ELSE index
       /\ req' = [req EXCEPT ![r].pc = "append",
                             ![r].store_uuid = uuid,
                             ![r].record_id =
                                unique_id(req[r].generated_recipe_id, uuid),
                             ![r].vector_store_success = (o = "stored")]
       /\ calls' = [calls EXCEPT ![r] = @ \o <<"embed", "upsert">>]
  /\ UNCHANGED <<users, conversations, now, served, resp>>

\* Steps 5 to 7 of request r
ConcAppend(r) ==
  /\ req[r].pc = "append"
  /\ \E o \in {"ok", "raise"} :
       LET conversation_id == IF o = "ok" THEN StrV(next_conversation_id)
                              ELSE NoneV
           recipe_data == set_conversation_id(req[r].recipe_data, conversation_id)
       IN /\ conversations' =
               IF o = "ok"
               THEN store_conversation_history(req[r].user_id, req[r].recipe_data)
               ELSE conversations
          /\ resp' = [resp EXCEPT ![r] = respond(o, recipe_data)]
          /\ req' = [req EXCEPT ![r].pc = "done", ![r].append = o,
                                ![r].conversation_id = conversation_id]
  /\ calls' = [calls EXCEPT ![r] = Append(@, "store_conversation_history")]
  /\ UNCHANGED <<users, index, now, served>>

ConcInit ==
  /\ users = StoredUsers
  /\ conversations = << >>
  /\ index = SeedIndex
  /\ now = 0
  /\ served = 0
  /\ req = [r \in InFlight |-> ConcIdle]
  /\ calls = [r \in InFlight |-> << >>]
  /\ resp = [r \in InFlight |-> NoResp]

ConcNext ==
  \/ \E r \in InFlight, u \in ConcUsers : ConcGenerate(r, u)
  \/ \E r \in InFlight : ConcStoreVector(r)
  \/ \E r \in InFlight : ConcAppend(r)

SpecConc == ConcInit /\ [][ConcNext]_vars

(***************************************************************************)
(* Properties.                                                             *)
(***************************************************************************)
Called(op) == \E i \in 1..Len(calls) : calls[i] = op
Done == req.pc = "done"
Returned == req.pc = "returned"
ReturnedText == Returned /\ req.gen.kind = "text"
FactKeys ==
  {"calories", "protein", "carbohydrates", "fat", "fiber", "sugar", "sodium"}
Field(r, f, x) == Has(r, f) /\ r[f] = x
IsStaticDefault(r) ==
  /\ Field(r, "recipe_name", StrV("Simple Pasta"))
  /\ Field(r, "servings", IntV(2))
  /\ Field(r, "difficulty", StrV("Easy"))
IsFallbackParse(r) ==
  /\ Field(r, "recipe_name", StrV("Simple Recipe"))
  /\ Field(r, "servings", IntV(4))
  /\ Field(r, "difficulty", StrV("Medium"))
StoresUntouched == index = req.index0 /\ conversations = req.conversations0

\* C1: a request whose similarity retrieval yielded an empty list still
\* reaches synthesis and persistence (the generation call and the
\* conversation append are made).
C1_EmptyRetrievalTolerated ==
  (Done /\ Called("embed") /\ req.similar_recipes = << >>)
    => (Called("chat") /\ Called("store_conversation_history"))

\* C2: a request that reached the generation call ends in 500 only when the
\* conversation append failed, whatever the generation call returned.
C2_Only500OnAppendFailure ==
  (Done /\ Called("chat") /\ resp.status = 500)
    => req.append \in {"raise", "none"}

\* C3: the recipe generate_recipe returns has nutritional_facts with exactly
\* the seven keys, and has dietary_tags, ingredients and instructions.
C3_SchemaComplete ==
  Returned =>
    /\ Has(req.recipe_data, "nutritional_facts")
    /\ req.recipe_data["nutritional_facts"].t = "dict"
    /\ DOMAIN req.recipe_data["nutritional_facts"].v = FactKeys
    /\ Has(req.recipe_data, "dietary_tags")
    /\ Has(req.recipe_data, "ingredients")
    /\ Has(req.recipe_data, "instructions")

\* a text holds no JSON object when no brace-delimited span is found in it
\* or the span found does not decode
NoJsonObject(text) == ~json_match(text) \/ ~json_loads(group(text)).ok

\* C4 as stated: a text that holds no JSON object yields the static default
\* recipe ("Simple Pasta", 2 servings, "Easy").
C4_NoJsonGivesStaticDefault ==
  (ReturnedText /\ NoJsonObject(req.gen.text)) => IsStaticDefault(req.recipe_data)

\* C4 as amended: a text without a brace-delimited span yields the fixed
\* recipe of the fallback parse ("Simple Recipe", 4 servings, "Medium"),
\* without a call to the image provider.
C4_NoSpanGivesFallbackParse ==
  (ReturnedText /\ ~json_match(req.gen.text))
    => (IsFallbackParse(req.recipe_data) /\ ~Called("image"))

C4_Witness ==
  /\ ReturnedText
  /\ req.gen.text = TextProse
  /\ IsFallbackParse(req.recipe_data)

\* C5 as stated: when the span found does not decode, the static default
\* recipe is returned only if the repaired span does not decode either.
C5_DefaultOnlyAfterRepairFails ==
  (/\ ReturnedText
   /\ json_match(req.gen.text)
   /\ ~json_loads(group(req.gen.text)).ok
   /\ IsStaticDefault(req.recipe_data))
    => ~json_loads(fixed_json(group(req.gen.text))).ok

\* C5 as amended: when the span found does not decode, the static default
\* recipe is returned at once, also when the repaired span would decode.
C5_UndecodableGivesStaticDefault ==
  (/\ ReturnedText
   /\ json_match(req.gen.text)
   /\ ~json_loads(group(req.gen.text)).ok)
    => IsStaticDefault(req.recipe_data)

C5_Witness ==
  /\ ReturnedText
  /\ req.gen.text = <<LB, NameNl, RB>>
  /\ json_loads(fixed_json(group(req.gen.text))).ok
  /\ IsStaticDefault(req.recipe_data)

\* C6: when the generation call raises, the recipe returned is the one
\* derived from the profile, named "Simple " and one of the favorite foods.
C6_FallbackNamedAfterFavorite ==
  (Returned /\ req.gen.kind = "raise") =>
    LET favorite_foods == req.user_profile["favorite_foods"] IN
    /\ \E i \in 1..Len(favorite_foods) :
         Field(req.recipe_data, "recipe_name", StrV("Simple " \o favorite_foods[i]))
    /\ Field(req.recipe_data, "dietary_tags",
             ListV(req.user_profile["dietary_preferences"]))
    /\ Field(req.recipe_data, "ingredients",
             ListV(<<"ingredient1", "ingredient2", "ingredient3">>))

C6_Witness ==
  /\ Returned
  /\ req.gen.kind = "raise"
  /\ req.user_id = "s1"
  /\ Field(req.recipe_data, "recipe_name", StrV("Simple pizza"))

\* C7: generate_recipe never raises: whatever the generation call and the
\* image call do, it returns a recipe, which carries the profile's id.
C7_GenerateNeverRaises ==
  Returned =>
    /\ ~req.raised
    /\ Field(req.recipe_data, "user_id", StrV(req.user_profile["student_id"]))
    /\ Has(req.recipe_data, "generated_at")
    /\ Has(req.recipe_data, "image_url")

C7_Witness ==
  /\ Returned
  /\ req.gen.kind = "raise"
  /\ req.img = "raise"
  /\ ~req.raised
  /\ Field(req.recipe_data, "image_url", StrV(""))

\* C8: a request for an id without a stored profile ends in 404, having
\* made no call but the profile lookup and written to neither store.
C8_UnknownUser404 ==
  (Done /\ get_user(req.user_id) = NoProfile) =>
    /\ resp.status = 404
    /\ calls = <<"get_user">>
    /\ StoresUntouched

C8_Witness ==
  /\ Done
  /\ req.user_id = "ghost"
  /\ resp.status = 404

\* C9: a request of a user whose favorite_foods is empty ends in 400,
\* having made no call to a provider and written to neither store.
C9_NoFavorites400 ==
  (/\ Done
   /\ get_user(req.user_id) # NoProfile
   /\ Get(get_user(req.user_id), "favorite_foods", << >>) = << >>) =>
    /\ resp.status = 400
    /\ calls = <<"get_user">>
    /\ StoresUntouched

C9_Witness ==
  /\ Done
  /\ req.user_id = "s3"
  /\ users["s3"]["favorite_foods"] = << >>
  /\ resp.status = 400

\* C10: a request whose conversation append failed ends in 500 and no
\* recipe is returned.
C10_AppendFailure500 ==
  (Done /\ req.append \in {"raise", "none"}) =>
    /\ resp.status = 500
    /\ resp.body = EmptyDict

C10_Witness ==
  /\ Done
  /\ req.append = "raise"
  /\ req.vector_store_success
  /\ resp.status = 500

\* the handler has been through the vector write, which failed
VectorWriteFailed ==
  /\ req.pc \in {"append", "done"}
  /\ req.vector_recipe_data # EmptyDict
  /\ ~req.vector_store_success
TimesCalled(op) == Cardinality({i \in 1..Len(calls) : calls[i] = op})

\* C11: a failed vector write (the embedding or the upsert failed) does not
\* fail the request: the index is left as it was, the conversation append
\* is made, and the recipe is returned when the append succeeds.
C11_VectorWriteFailureTolerated ==
  VectorWriteFailed =>
    /\ index = req.index0
    /\ resp.status = 0 \/ Called("store_conversation_history")
    /\ Done => /\ Called("store_conversation_history")
               /\ (req.append = "ok" /\ RecipeResponse(req.recipe_data))
                    => (resp.status = 200 /\ resp.body = req.recipe_data)

C11_Witness ==
  /\ VectorWriteFailed
  /\ Done
  /\ calls[Len(calls) - 1] = "upsert"
  /\ req.append = "ok"
  /\ resp.status = 200

\* C12: a request that returns a recipe has appended exactly one
\* conversation record, as its last external operation, and the response's
\* conversation_id is the id of that record.
C12_ConversationIdOfAppendedRecord ==
  (Done /\ resp.status = 200) =>
    /\ TimesCalled("store_conversation_history") = 1
    /\ calls[Len(calls)] = "store_conversation_history"
    /\ Len(conversations) = Len(req.conversations0) + 1
    /\ SubSeq(conversations, 1, Len(req.conversations0)) = req.conversations0
    /\ LET record == conversations[Len(conversations)] IN
         /\ record.user_id = req.user_id
         /\ Field(resp.body, "conversation_id", StrV(record.conversation_id))
         /\ \A i \in 1..Len(req.conversations0) :
              req.conversations0[i].conversation_id # record.conversation_id

C12_Witness ==
  /\ Done
  /\ resp.status = 200
  /\ Len(conversations) = Len(req.conversations0) + 1
  /\ Field(resp.body, "conversation_id",
           StrV(conversations[Len(conversations)].conversation_id))

\* the object decoded from the span of the returned text
Decoded == json_loads(group(req.gen.text))
ReturnedDecoded ==
  ReturnedText /\ json_match(req.gen.text) /\ Decoded.ok
\* the fields generate_recipe sets itself after parsing
Attached == {"image_url", "user_id", "generated_at"}

\* C13: when the decoded output lacks image_prompt, serving_size or
\* nutritional_facts, each missing one is filled with its placeholder and
\* the object is returned, every field that was present unchanged.
C13_MissingOptionalBackFilled ==
  ReturnedDecoded =>
    LET dec == Decoded.val
        r == req.recipe_data
    IN /\ \A k \in DOMAIN dec \ Attached : Field(r, k, dec[k])
       /\ ~Has(dec, "serving_size") => Field(r, "serving_size", StrV("1 serving"))
       /\ ~Has(dec, "nutritional_facts")
            => Field(r, "nutritional_facts", DictV(PlaceholderFacts))
       /\ ~Has(dec, "image_prompt")
            => /\ Has(r, "image_prompt")
               /\ r["image_prompt"].t = "str"
               /\ ~Has(dec, "recipe_name")
                    => r["image_prompt"] =
                         StrV("A delicious recipe served on a plate with garnishes")

\* the same for a decoded output whose recipe_name, if any, is a string
C13_BackFilledWhenNameIsString ==
  (ReturnedDecoded /\ Get(Decoded.val, "recipe_name", StrV("Recipe")).t = "str")
    => C13_MissingOptionalBackFilled

\* the names of the matches, as the context lists them
MatchLine(m) ==
  Format(Get(m.metadata, "name", StrV("Unknown"))) \o " - "
    \o Format(Get(m.metadata, "cuisine", StrV("Unknown cuisine")))
NamedMatches ==
  {i \in 1..Len(req.similar_recipes) :
     \E l \in 1..Len(req.context), k \in 1..2 :
       req.context[l] = ToString(k) \o ". " \o MatchLine(req.similar_recipes[i])}
NamingLines ==
  {l \in 1..Len(req.context) :
     \E i \in 1..Len(req.similar_recipes), k \in 1..2 :
       req.context[l] = ToString(k) \o ". " \o MatchLine(req.similar_recipes[i])}
OverThreshold ==
  {i \in 1..Len(req.similar_recipes) : req.similar_recipes[i].score > 80}

\* C14: the context names at most one match, and only one whose score is
\* strictly greater than 0.8; of several such matches it names the first,
\* and a single match scoring 0.9 is named.
C14_ContextNamesFirstMatchOverThreshold ==
  Returned =>
    /\ Cardinality(NamedMatches) <= 1
    /\ Cardinality(NamingLines) <= 1
    /\ NamedMatches \subseteq OverThreshold
    /\ OverThreshold # {}
         => NamedMatches = {CHOOSE i \in OverThreshold :
                              \A j \in OverThreshold : i <= j}
    /\ (Len(req.similar_recipes) = 1 /\ req.similar_recipes[1].score = 90)
         => NamedMatches = {1}

C14_Witness ==
  /\ Returned
  /\ Len(req.similar_recipes) = 2
  /\ req.similar_recipes[1].score = 90
  /\ req.similar_recipes[2].score = 90
  /\ NamedMatches = {1}
  /\ \E l \in 1..Len(req.context) :
       req.context[l] = "1. Margherita Pizza - Neapolitan"

\* the path generate_recipe took
Path ==
  CASE req.gen.kind = "raise" -> "profile_fallback"
    [] req.gen.kind = "none" -> "static_default"
    [] ~json_match(req.gen.text) -> "fallback_parse"
    [] IsStaticDefault(req.recipe_data) -> "static_default"
    [] OTHER -> "decoded"

\* C15: on each of the four paths the returned recipe carries the
\* profile's id as user_id and the time of generation as generated_at.
C15_UserIdAndGeneratedAtOnEveryPath ==
  Returned =>
    /\ Path \in {"decoded", "fallback_parse", "static_default", "profile_fallback"}
    /\ Field(req.recipe_data, "user_id", StrV(req.user_profile["student_id"]))
    /\ Field(req.recipe_data, "generated_at", TimeV(now))

C15_Witness ==
  /\ Returned
  /\ Path = "decoded"
  /\ Field(req.recipe_data, "recipe_name", StrV("Stew"))
  /\ Field(req.recipe_data, "user_id", StrV("s2"))
  /\ Has(req.recipe_data, "generated_at")

\* C16: a failure of the image call is never fatal: a recipe is returned
\* on every path, with an image_url, which is "" whenever the image call
\* raised or returned no data.
C16_ImageFailureNotFatal ==
  Returned =>
    /\ ~req.raised
    /\ Has(req.recipe_data, "image_url")
    /\ req.recipe_data["image_url"].t = "str"
    /\ (Called("image") /\ req.img \in {"raise", "nodata"})
         => req.recipe_data["image_url"] = StrV("")

C16_Witness ==
  /\ Returned
  /\ Path = "profile_fallback"
  /\ Called("image")
  /\ req.img = "nodata"
  /\ Field(req.recipe_data, "image_url", StrV(""))

Searched == req.pc = "searched"
HistoryServed == req.pc = "history"
UserServed == req.pc = "user"
Uploaded == req.pc = "uploaded"
StoresAsBefore ==
  /\ users = req.users0
  /\ conversations = req.conversations0
  /\ index = req.index0

\* C17: GET /recipe/search never surfaces a backend failure: for every
\* query and top_k it answers 200 with total_found equal to the number of
\* results, which is 0 when the embedding or the index query failed and
\* when top_k is 0.
C17_SearchNeverFails ==
  Searched =>
    /\ resp.status = 200
    /\ resp.body.query = req.query
    /\ resp.body.total_found = Len(resp.body.results)
    /\ req.outcome \in {"embed_fails", "no_matches"} => resp.body.total_found = 0
    /\ req.top_k = 0 => resp.body.results = << >>
    /\ StoresAsBefore

C17_Witness ==
  /\ Searched
  /\ req.top_k = 0
  /\ req.outcome = "embed_fails"
  /\ resp.status = 200
  /\ resp.body.total_found = 0

\* the history request served just before asked for the same list
RepeatedHistory ==
  /\ HistoryServed
  /\ req.prev.resp # NoResp
  /\ req.prev.user_id = req.user_id
  /\ req.prev.limit = req.limit

\* C18: GET /recipe/{user_id}/history writes to neither store; a second
\* call with the same limit right after the first returns the same ordered
\* list; for an unknown user it answers 404 without querying the history.
C18_HistoryReadOnlyAndRepeatable ==
  HistoryServed =>
    /\ StoresAsBefore
    /\ RepeatedHistory => resp = req.prev.resp
    /\ get_user(req.user_id) = NoProfile
         => (resp.status = 404 /\ calls = <<"get_user">>)
    /\ get_user(req.user_id) # NoProfile
         => (resp.status = 200 /\ Len(resp.body) <= req.limit)

C18_Witness ==
  /\ RepeatedHistory
  /\ req.user_id = "s1"
  /\ req.limit = 2
  /\ resp.status = 200
  /\ Len(resp.body) = 2
  /\ resp.body[1].conversation_id = "conv_3"
  /\ resp = req.prev.resp

\* C19: GET /user/{id} of a stored profile with favorite_food and without
\* favorite_foods returns favorite_foods as the one-element list of that
\* value and writes the migrated profile back; a profile that has
\* favorite_foods is returned as stored, without a write.
C19_LegacyFavoriteFoodMigratedOnRead ==
  (UserServed /\ req.user # NoProfile) =>
    /\ IsLegacy(req.user) =>
         /\ calls = <<"get_user", "create_or_update_user">>
         /\ req.outcome # "raise" =>
              /\ resp.status = 200
              /\ resp.body["favorite_foods"] = <<req.user["favorite_food"]>>
              /\ ~Has(resp.body, "favorite_food")
              /\ \A f \in DOMAIN req.user \ {"favorite_food"} :
                   resp.body[f] = req.user[f]
         /\ req.outcome = "ok" =>
              /\ users[req.user_id] = resp.body
              /\ \A u \in DOMAIN users \ {req.user_id} : users[u] = req.users0[u]
    /\ Has(req.user, "favorite_foods") =>
         /\ resp.status = 200
         /\ resp.body = req.user
         /\ calls = <<"get_user">>
         /\ StoresAsBefore

C19_Witness ==
  /\ UserServed
  /\ req.user_id = "s4"
  /\ IsLegacy(req.user)
  /\ req.outcome = "ok"
  /\ resp.status = 200
  /\ resp.body["favorite_foods"] = <<"pizza">>
  /\ users["s4"]["favorite_foods"] = <<"pizza">>

\* C20: the upload answers with one entry per extracted recipe, in the
\* order of extraction, "uploaded" where the vector write succeeded and
\* "failed" where it did not; every recipe is attempted whatever happened
\* to the ones before, and total_uploaded counts the "uploaded" entries.
C20_UploadStatusPerRecipe ==
  (Uploaded /\ IsPdf(req.filename) /\ req.outcome = "recipes") =>
    LET entries == resp.body.uploaded_recipes
        n == Len(req.recipes)
    IN /\ resp.status = 200
       /\ Len(entries) = n
       /\ TimesCalled("embed") = n
       /\ \A i \in 1..n :
            /\ entries[i].name = Get(req.recipes[i], "name", StrV("Unknown"))
            /\ entries[i].status =
                 (IF req.outs[i] = "stored" THEN "uploaded" ELSE "failed")
            /\ entries[i].status = "uploaded"
                 => \E r \in index : r.metadata = req.recipes[i]
            /\ \A j \in 1..n : i # j => entries[i].id # entries[j].id
       /\ \A r \in index \ req.index0 :
            \E i \in 1..n : /\ entries[i].status = "uploaded"
                             /\ r.metadata = req.recipes[i]
       /\ resp.body.total_uploaded =
            Cardinality({i \in 1..n : entries[i].status = "uploaded"})

C20_Witness ==
  /\ Uploaded
  /\ resp.status = 200
  /\ req.outs = <<"upsert_fails", "stored">>
  /\ resp.body.uploaded_recipes[1].status = "failed"
  /\ resp.body.uploaded_recipes[2].status = "uploaded"
  /\ resp.body.total_uploaded = 1

\* C21: the upload answers 400 when the file name does not end in .pdf
\* and 400 when no recipes were extracted; neither is answered with 500.
C21_UploadClientErrors400 ==
  Uploaded =>
    /\ ~IsPdf(req.filename) => resp.status = 400
    /\ (IsPdf(req.filename) /\ req.outcome = "recipes" /\ req.recipes = << >>)
         => resp.status = 400

\* what the handler does answer: its own "except Exception" catches the
\* HTTPException it raised, and the answer is 500
C21_UploadClientErrorsAnswered500 ==
  (Uploaded /\ ~IsPdf(req.filename)) =>
    (resp.status = 500 /\ calls = << >> /\ StoresAsBefore)

\* the stage an external operation of the log belongs to: 1 lookup,
\* 2 retrieval, 3 synthesis, 4 vector write, 5 conversation append
Stage(i) ==
  CASE calls[i] = "get_user" -> 1
    [] calls[i] = "query" -> 2
    [] calls[i] = "chat" -> 3
    [] calls[i] = "image" -> 3
    [] calls[i] = "upsert" -> 4
    [] calls[i] = "store_conversation_history" -> 5
    [] calls[i] = "embed" ->
         IF \E j \in 1..(i - 1) : calls[j] = "chat" THEN 4 ELSE 2
InPipeline == req.pc \in {"lookup", "retrieve", "generate", "store", "append", "done"}

\* C22: the external operations of a request happen in the order lookup,
\* similarity query, generation, vector write, conversation append,
\* response; nothing is written before generation has produced the
\* recipe, and the response comes last.
C22_StagesInOrder ==
  InPipeline =>
    /\ \A i, j \in 1..Len(calls) : i < j => Stage(i) <= Stage(j)
    /\ calls # << >> => calls[1] = "get_user"
    /\ Called("chat") => SubSeq(calls, 1, 3) = <<"get_user", "embed", "query">>
    /\ (\/ Called("upsert") \/ Called("store_conversation_history")
        \/ TimesCalled("embed") = 2
        \/ index # req.index0 \/ conversations # req.conversations0)
         => (Called("chat") /\ req.recipe_data # EmptyDict)
    /\ Called("store_conversation_history") => TimesCalled("embed") = 2
    /\ resp.status # 0 => Done
    /\ resp.status = 200 => calls[Len(calls)] = "store_conversation_history"

C22_Witness ==
  /\ Done
  /\ resp.status = 200
  /\ calls = <<"get_user", "embed", "query", "chat", "image", "embed",
               "upsert", "store_conversation_history">>

\* C23: no external call is retried: within one request the profile
\* lookup, the similarity query, the chat completion, the image call, the
\* vector upsert and the conversation append are each made at most once
\* (and an embedding at most once for the query and once for the write).
C23_NoRetries ==
  InPipeline =>
    /\ \A op \in {"get_user", "query", "chat", "image", "upsert",
                   "store_conversation_history"} : TimesCalled(op) <= 1
    /\ TimesCalled("embed") <= 2
    /\ ~Called("chat") => TimesCalled("embed") <= 1

C23_Witness ==
  /\ Done
  /\ req.gen.kind = "none"
  /\ req.img = "raise"
  /\ ~req.vector_store_success
  /\ req.append = "raise"
  /\ calls = <<"get_user", "embed", "query", "chat", "image", "embed",
               "upsert", "store_conversation_history">>

\* the favorite foods of the profile the request works on
FavoriteFoods == req.user_profile["favorite_foods"]
Generated == InPipeline /\ req.context # << >>

\* C25: the similarity query is the first entry of favorite_foods; the
\* food named in the context and the one in the profile-derived fallback
\* name are entries of the same list, not necessarily the first.
C25_FirstForQueryAnyForContext ==
  /\ (InPipeline /\ req.user_profile # NoProfile)
       => req.primary_favorite = FavoriteFoods[1]
  /\ Generated =>
       /\ \E k \in 1..Len(FavoriteFoods) :
            req.context[1] = "User's primary favorite food: " \o FavoriteFoods[k]
       /\ req.gen.kind = "raise" =>
            \E k \in 1..Len(FavoriteFoods) :
              Field(req.recipe_data, "recipe_name",
                    StrV("Simple " \o FavoriteFoods[k]))

C25_Witness ==
  /\ Generated
  /\ req.gen.kind = "raise"
  /\ req.primary_favorite = "pasta"
  /\ req.context[1] = "User's primary favorite food: pizza"
  /\ Field(req.recipe_data, "recipe_name", StrV("Simple pasta"))

\* the records generation requests have written
GeneratedRecords == {r \in index : Has(r.metadata, "generated_for_user")}

\* C26: in every vector record written by a generation request each
\* metadata value is a scalar or a list of strings; cuisine is the string
\* "AI Generated" and generated_at is a string.
C26_MetadataScalarOrStringList ==
  \A r \in GeneratedRecords :
    /\ \A k \in DOMAIN r.metadata : r.metadata[k].t \in {"str", "int", "list"}
    /\ r.metadata["cuisine"] = StrV("AI Generated")
    /\ r.metadata["generated_at"].t = "str"

\* what does hold of every such record: cuisine and generated_at
C26_CuisineAndGeneratedAtAreStrings ==
  \A r \in GeneratedRecords :
    /\ r.metadata["cuisine"] = StrV("AI Generated")
    /\ r.metadata["generated_at"].t = "str"

\* the vector record of the request in flight
OwnRecords ==
  {r \in index : \E u \in Uuids : r.id = unique_id(req.generated_recipe_id, u)}

\* C27: no compensating delete: when the vector write succeeded and the
\* conversation append then failed, the request ends in 500, no
\* conversation record is added, and the vector record stays in the index.
C27_NoCompensatingDelete ==
  (Done /\ req.vector_store_success /\ req.append \in {"raise", "none"}) =>
    /\ resp.status = 500
    /\ conversations = req.conversations0
    /\ \E r \in OwnRecords : r.metadata = req.vector_recipe_data
    /\ calls[Len(calls)] = "store_conversation_history"

C27_Witness ==
  /\ Done
  /\ req.vector_store_success
  /\ req.append = "none"
  /\ resp.status = 500
  /\ OwnRecords # {}
  /\ conversations = << >>

C29_ImageCallOnlyOnDefaultAndFallback ==
  Returned =>
    /\ Path \in {"decoded", "fallback_parse"}
         => (~Called("image") /\ Field(req.recipe_data, "image_url", StrV("")))
    /\ Path \in {"static_default", "profile_fallback"}
         => TimesCalled("image") = 1

C29_Witness ==
  /\ Returned
  /\ Path = "decoded"
  /\ Has(req.recipe_data, "image_prompt")
  /\ ~Called("image")
  /\ Field(req.recipe_data, "image_url", StrV(""))

\* C30: no record of the index has as its id the generated_recipe_id of
\* the request, nor an id reported in uploaded_recipes: store_recipe
\* upserts under the id it was given extended by a timestamp and a suffix.
C30_ReportedIdsAreNotRecordIds ==
  /\ InPipeline => \A r \in index : r.id # req.generated_recipe_id
  /\ (Uploaded /\ resp.status = 200) =>
       \A i \in 1..Len(resp.body.uploaded_recipes), r \in index :
         r.id # resp.body.uploaded_recipes[i].id

C30_Witness ==
  /\ Done
  /\ req.vector_store_success
  /\ OwnRecords # {}
  /\ \A r \in index : r.id # req.generated_recipe_id

C30_UploadWitness ==
  /\ Uploaded
  /\ resp.status = 200
  /\ resp.body.total_uploaded = 2
  /\ \A r \in index : r.id # resp.body.uploaded_recipes[1].id

\* the random components of the ids of two requests differ
RandomDiffer(r1, r2) ==
  \/ req[r1].uuid # req[r2].uuid
  \/ req[r1].store_uuid # req[r2].store_uuid
Wrote(r) == req[r].pc \in {"append", "done"} /\ req[r].vector_store_success
Appended(r) == req[r].pc = "done" /\ req[r].append = "ok"

\* C24: of requests in flight at once, also of the same user in the same
\* second, each writes its vector record under an id no other request
\* uses and appends a conversation record of its own, provided the random
\* components of the ids differ: no record is overwritten or lost.
C24_ConcurrentRequestsKeepTheirRecords ==
  /\ \A r1, r2 \in InFlight :
       (r1 # r2 /\ Wrote(r1) /\ Wrote(r2) /\ RandomDiffer(r1, r2))
         => req[r1].record_id # req[r2].record_id
  /\ \A r \in InFlight :
       (Wrote(r) /\ \A r2 \in InFlight \ {r} : Wrote(r2) => RandomDiffer(r, r2))
         => \E rec \in index : /\ rec.id = req[r].record_id
                               /\ rec.metadata = req[r].vector_recipe_data
  /\ \A r \in InFlight :
       Appended(r) =>
         /\ resp[r].status = 200
         /\ Cardinality({i \in 1..Len(conversations) :
               StrV(conversations[i].conversation_id) = req[r].conversation_id}) = 1
         /\ \A r2 \in InFlight \ {r} :
              Appended(r2) => req[r2].conversation_id # req[r].conversation_id
  /\ Len(conversations) = Cardinality({r \in InFlight : Appended(r)})

C24_Witness ==
  /\ Wrote(1) /\ Wrote(2)
  /\ Appended(1) /\ Appended(2)
  /\ req[1].user_id = req[2].user_id
  /\ req[1].generated_recipe_id # req[2].generated_recipe_id
  /\ req[1].store_uuid = req[2].store_uuid
  /\ now = 0
  /\ Cardinality(index) = 3
  /\ Len(conversations) = 2

====
